---- MODULE Spec2Model ----
(***************************************************************************)
(* User command subsystem of aider (aider/user_commands.py):               *)
(*   - UserCommandRegistry: commands / sources, add_commands,              *)
(*     drop_commands, list_commands, from_config                           *)
(*   - CommandLoader: load_commands, _read_yaml, _parse_commands,          *)
(*     _create_command                                                     *)
(*   - UserCommand construction (__post_init__) and invocation (__call__)  *)
(*   - load_plugin / import_string                                         *)
(* Python dicts are functions whose DOMAIN is the key set; Python sets are *)
(* sets; a raised exception is the "exc" field of a result record.         *)
(***************************************************************************)
EXTENDS Integers, Sequences, FiniteSets, TLC

VARIABLES
    commands,      \* UserCommandRegistry.commands : name -> UserCommand
    sources,       \* UserCommandRegistry.sources  : source id -> set of names
    last,          \* the registry call that completed last and what it returned
    supplied,      \* history: name -> the (command, source) of the latest add_commands holding it
    sources_order, \* the keys of the dict sources in insertion order
    listed,        \* the lines list_commands gave to io.tool_output, when it ran last
    config_paths,  \* CommandLoader.config_paths, each path given by what is on disk there
    all_commands,  \* the dict load_commands returns
    lpc,           \* position of the load_commands caller
    cmd_name,      \* _create_command argument: name
    cmd_def,       \* _create_command argument: definition
    cmd,           \* outcome of _create_command, or of UserCommand(...)
    cpc,           \* position of the _create_command caller
    ctor_type,     \* command_type argument of a direct UserCommand(...) call
    self_cmd,      \* the UserCommand invoked; its definition as a sequence of symbols
    call_args,     \* the args string of the invocation
    env_cmd_run,   \* whether commands.cmd_run returns or raises
    env_callee,    \* the resolved callable: its number of parameters, whether it raises
    cmd_run_calls, \* the strings commands.cmd_run was called with
    callee_calls,  \* the argument lists the resolved callable was called with
    tool_errors,   \* the messages given to commands.io.tool_error
    outcome,       \* what __call__ returned or raised
    resolved,      \* what load_plugin returned or raised
    ipc            \* position of the caller of __call__ / load_plugin

regVars == <<commands, sources, last, supplied, sources_order, listed>>
loadVars == <<config_paths, all_commands, lpc>>
createVars == <<cmd_name, cmd_def, cmd, cpc, ctor_type>>
invokeVars == <<self_cmd, call_args, env_cmd_run, env_callee, cmd_run_calls, callee_calls,
                tool_errors, outcome, resolved, ipc>>
vars == <<commands, sources, last, supplied, sources_order, listed, config_paths, all_commands, lpc,
          cmd_name, cmd_def, cmd, cpc, ctor_type,
          self_cmd, call_args, env_cmd_run, env_callee, cmd_run_calls, callee_calls,
          tool_errors, outcome, resolved, ipc>>

----------------------------------------------------------------------------
(* Values *)

\* Command names used as dict keys.
Names == {"x", "y"}

\* Source identifiers handed to add_commands.  "x" is also a command name.
SourceIds == {"A", "B", "x"}

\* A target that is neither a source identifier nor a command name.
Nonexistent == "nonexistent"

\* the least and the greatest of a set of numbers
Minimum(S) == CHOOSE m \in S : \A k \in S : m <= k

Maximum(S) == CHOOSE m \in S : \A k \in S : k <= m

\* the positions of c in the sequence q
PositionsOf(q, c) == {k \in 1..Len(q) : q[k] = c}

\* A string that is taken apart is a sequence of symbols: a separator or brace
\* is one symbol, a word without them is one symbol.  The text of such a sequence:
RECURSIVE Join(_)
Join(q) == IF q = <<>> THEN "" ELSE Head(q) \o Join(Tail(q))

\* The dataclass UserCommand (its four public fields).
UserCommandRec(n, t, d, h) ==
    [name |-> n, command_type |-> t, definition |-> d, description |-> h]

\* Placeholder where no UserCommand exists.
NoCommand == UserCommandRec("", "", "", "")

\* Python dict operations
EmptyDict == [k \in {} |-> NoCommand]

\* dict.update(other)
dict_update(d, other) ==
    [k \in (DOMAIN d) \cup (DOMAIN other) |-> IF k \in DOMAIN other THEN other[k] ELSE d[k]]

\* the dict left after popping / deleting every key in ks
dict_without(d, ks) == [k \in (DOMAIN d) \ ks |-> d[k]]

\* A value yaml.safe_load returns: t is its Python type, s the text of a str (or
\* of an int, or the single element of a list), f the items of a dict.
NoItems == [k \in {} |-> 0]

YStr(s) == [t |-> "str", s |-> s, f |-> NoItems]

YInt == [t |-> "int", s |-> "5", f |-> NoItems]

YNull == [t |-> "null", s |-> "", f |-> NoItems]

YList(e) == [t |-> "list", s |-> e, f |-> NoItems]

YDict(f) == [t |-> "dict", s |-> "", f |-> f]

\* bool(v)
truthy(v) ==
    CASE v.t = "str" -> v.s # ""
      [] v.t = "dict" -> DOMAIN v.f # {}
      [] v.t = "int" -> v.s # "0"
      [] v.t = "list" -> TRUE
      [] OTHER -> FALSE

\* a or b
py_or(a, b) == IF truthy(a) THEN a ELSE b

\* d.get(key, default) of a dict
dict_get(d, key, default) == IF key \in DOMAIN d.f THEN d.f[key] ELSE default

\* f"Run: {definition}"
RunDescription(d) == "Run: " \o d

\* The commands a caller hands to add_commands under name n.
\* c2 is built without a description.
RegistryCommands(n) ==
    { UserCommandRec(n, "shell", "c1", RunDescription("c1")),
      UserCommandRec(n, "shell", "c2", "") }

\* Every mapping add_commands may be called with.
Mappings ==
    UNION { {m \in [S -> UNION {RegistryCommands(n) : n \in S}] :
                \A n \in S : m[n] \in RegistryCommands(n)} : S \in SUBSET Names }

----------------------------------------------------------------------------
(* UserCommandRegistry *)

\* UserCommandRegistry.__init__ with no commands
RegistryInit ==
    /\ commands = EmptyDict
    /\ sources = [s \in {} |-> {}]
    /\ last = [op |-> "init", arg |-> "", mapping |-> EmptyDict, ret |-> "None", line |-> 211]
    /\ supplied = [n \in {} |-> [cmd |-> NoCommand, src |-> ""]]
    /\ sources_order = <<>>
    /\ listed = <<>>

\* the key order of sources after self.sources[path] = ...: a new key goes last
add_order(order, path) ==
    IF PositionsOf(order, path) # {} THEN order ELSE Append(order, path)

\* the key order of sources after deletions: the keys left, in their old order
del_order(order, srcs) == SelectSeq(order, LAMBDA s : s \in DOMAIN srcs)

\* add_commands: self.sources[path] = set(commands.keys())
add_sources_merge(srcs, path, mapping) ==
    [s \in (DOMAIN srcs) \cup {path} |->
        IF s = path
        THEN (IF path \in DOMAIN srcs THEN srcs[path] ELSE {}) \cup DOMAIN mapping
        ELSE srcs[s]]

add_sources(srcs, path, mapping) ==
    [s \in (DOMAIN srcs) \cup {path} |-> IF s = path THEN DOMAIN mapping ELSE srcs[s]]

\* add_commands: self.commands.update(commands)
add_update_first_wins(cmds, mapping) == dict_update(mapping, cmds)

add_update(cmds, mapping) == dict_update(cmds, mapping)

add_commands(path, mapping) ==
    /\ sources' = add_sources(sources, path, mapping)
    /\ commands' = add_update(commands, mapping)
    /\ last' = [op |-> "add", arg |-> path, mapping |-> mapping, ret |-> "None", line |-> 224]
    /\ supplied' = [n \in (DOMAIN supplied) \cup (DOMAIN mapping) |->
                       IF n \in DOMAIN mapping
                       THEN [cmd |-> mapping[n], src |-> path]
                       ELSE supplied[n]]
    /\ sources_order' = add_order(sources_order, path)
    /\ listed' = <<>>

\* drop_commands, branch `if target in self.sources`: the pops
drop_source_commands_keep(cmds, srcs, target) == cmds

drop_source_commands(cmds, srcs, target) == dict_without(cmds, srcs[target])

\* drop_commands, branch `if target in self.sources`: del self.sources[target]
drop_source_sources_keep(srcs, target) == srcs

drop_source_sources(srcs, target) == [s \in (DOMAIN srcs) \ {target} |-> srcs[s]]

\* drop_commands, branch `elif target in self.commands`: del self.commands[target]
drop_name_commands(cmds, target) == dict_without(cmds, {target})

\* names.remove(target) for every set holding it, del of the sets left empty
drop_name_sources_noprune(srcs, target) == [s \in DOMAIN srcs |-> srcs[s] \ {target}]

drop_name_sources(srcs, target) ==
    [s \in {r \in DOMAIN srcs : target \in srcs[r] => srcs[r] \ {target} # {}} |->
        srcs[s] \ {target}]

\* the value drop_commands returns and the return statement reached
drop_return_always(cmds, srcs, target) ==
    IF target \in DOMAIN srcs THEN [ret |-> "True", line |-> 231]
    ELSE IF target \in DOMAIN cmds THEN [ret |-> "True", line |-> 239]
    ELSE [ret |-> "True", line |-> 240]

drop_return(cmds, srcs, target) ==
    IF target \in DOMAIN srcs THEN [ret |-> "True", line |-> 231]
    ELSE IF target \in DOMAIN cmds THEN [ret |-> "True", line |-> 239]
    ELSE [ret |-> "False", line |-> 240]

drop_commands(target) ==
    /\ IF target \in DOMAIN sources
       THEN /\ commands' = drop_source_commands(commands, sources, target)
            /\ sources' = drop_source_sources(sources, target)
       ELSE IF target \in DOMAIN commands
       THEN /\ commands' = drop_name_commands(commands, target)
            /\ sources' = drop_name_sources(sources, target)
       ELSE UNCHANGED <<commands, sources>>
    /\ last' = [op |-> "drop", arg |-> target, mapping |-> EmptyDict,
                ret |-> drop_return(commands, sources, target).ret,
                line |-> drop_return(commands, sources, target).line]
    /\ sources_order' = del_order(sources_order, sources')
    /\ listed' = <<>>
    /\ UNCHANGED supplied

\* Python's order of the strings that are sorted: by code point
StringOrder == <<"<config>", "<unknown>", "A", "B", "x", "y">>

Rank(str) == Minimum(PositionsOf(StringOrder, str))

\* sorted(S) of a set of strings
sorted_descending(S) ==
    [k \in 1..Cardinality(S) |->
        CHOOSE e \in S : Cardinality({o \in S : Rank(o) > Rank(e)}) = k - 1]

sorted(S) ==
    [k \in 1..Cardinality(S) |->
        CHOOSE e \in S : Cardinality({o \in S : Rank(o) < Rank(e)}) = k - 1]

\* list_commands, inner loop: the first source, in key order, whose set has the
\* name; then `source or "<unknown>"`
source_of(srcs, order, n) ==
    LET hits == {k \in 1..Len(order) : n \in srcs[order[k]]} IN
    IF hits = {} \/ order[Minimum(hits)] = "" THEN "<unknown>" ELSE order[Minimum(hits)]

\* by_source: source -> the names gathered under it
by_source(cmds, srcs, order) ==
    [s \in {source_of(srcs, order, n) : n \in DOMAIN cmds} |->
        {n \in DOMAIN cmds : source_of(srcs, order, n) = s}]

\* f"\nCommands from {source}:"
HeaderLine(source) == [head |-> source, name |-> "", desc |-> ""]

\* f"  {name:20} : {desc}" with desc = cmd.description or "No description"
CommandLine(c) ==
    [head |-> "", name |-> c.name,
     desc |-> IF c.description # "" THEN c.description ELSE "No description"]

\* the lines of one group
group_lines(cmds, source, names) ==
    <<HeaderLine(source)>> \o [k \in 1..Cardinality(names) |-> CommandLine(cmds[sorted(names)[k]])]

RECURSIVE lines_from(_, _, _, _)
\* the lines of the groups from the i-th of the sorted groups on
lines_from(cmds, groups, keys, i) ==
    IF i > Len(keys) THEN <<>>
    ELSE group_lines(cmds, keys[i], groups[keys[i]]) \o lines_from(cmds, groups, keys, i + 1)

\* list_commands(io): the calls of io.tool_output
list_commands(cmds, srcs, order) ==
    lines_from(cmds, by_source(cmds, srcs, order),
               sorted(DOMAIN by_source(cmds, srcs, order)), 1)

AddCommands ==
    /\ \E path \in SourceIds, mapping \in Mappings : add_commands(path, mapping)
    /\ UNCHANGED <<loadVars, createVars, invokeVars>>

DropCommands ==
    /\ \E target \in SourceIds \cup Names \cup {Nonexistent} : drop_commands(target)
    /\ UNCHANGED <<loadVars, createVars, invokeVars>>

LoaderIdle ==
    /\ config_paths = <<>>
    /\ all_commands = EmptyDict
    /\ lpc = "idle"

CreateIdle ==
    /\ cmd_name = ""
    /\ cmd_def = YStr("")
    /\ cmd = [exc |-> "none", cmd |-> NoCommand]
    /\ cpc = "idle"
    /\ ctor_type = ""

\* no command is being invoked
InvokeIdle ==
    /\ self_cmd = [name |-> "", command_type |-> "", definition |-> <<>>]
    /\ call_args = ""
    /\ env_cmd_run = "returns"
    /\ env_callee = [arity |-> 2, raises |-> FALSE]
    /\ cmd_run_calls = <<>>
    /\ callee_calls = <<>>
    /\ tool_errors = <<>>
    /\ outcome = [exc |-> "none", ret |-> "None"]
    /\ resolved = [exc |-> "none", val |-> "None"]
    /\ ipc = "idle"

Init == RegistryInit /\ LoaderIdle /\ CreateIdle /\ InvokeIdle

\* registry.list_commands(io)
ListCommands ==
    /\ listed' = list_commands(commands, sources, sources_order)
    /\ last' = [op |-> "list", arg |-> "", mapping |-> EmptyDict, ret |-> "None", line |-> 257]
    /\ UNCHANGED <<commands, sources, supplied, sources_order>>
    /\ UNCHANGED <<loadVars, createVars, invokeVars>>

Next == AddCommands \/ DropCommands \/ ListCommands

Spec == Init /\ [][Next]_vars

----------------------------------------------------------------------------
(* UserCommand and CommandLoader *)

\* the keys of UserCommand._dispatch, also the set tested by _create_command
CommandTypes == {"shell", "plugin", "override"}

\* a call that raised
Raise(e) == [exc |-> e, cmd |-> NoCommand]

\* UserCommand(...) : the dataclass constructor followed by __post_init__
UserCommand_unchecked(n, t, d, h) == [exc |-> "none", cmd |-> UserCommandRec(n, t, d, h)]

UserCommand(n, t, d, h) ==
    IF t \in CommandTypes
    THEN [exc |-> "none", cmd |-> UserCommandRec(n, t, d, h)]
    ELSE Raise("ValueError")

\* _create_command: the help text of a mapping definition
help_text_description_first(definition) ==
    py_or(dict_get(definition, "description", YNull),
          py_or(dict_get(definition, "help", YNull),
                YStr(RunDescription(definition.f["definition"].s))))

help_text(definition) ==
    py_or(dict_get(definition, "help", YNull),
          py_or(dict_get(definition, "description", YNull),
                YStr(RunDescription(definition.f["definition"].s))))

\* _create_command: the branch `if isinstance(definition, str)`
create_shell_no_prefix(n, d) == UserCommand(n, "shell", d, d)

create_shell(n, d) == UserCommand(n, "shell", d, RunDescription(d))

\* CommandLoader._create_command(name, definition)
create_command(n, definition) ==
    IF definition.t = "str"
    THEN create_shell(n, definition.s)
    ELSE IF definition.t \in {"int", "null"}
    THEN Raise("TypeError")               \* `"definition" not in definition`: not iterable
    ELSE IF (definition.t = "dict" /\ "definition" \notin DOMAIN definition.f)
            \/ (definition.t = "list" /\ definition.s # "definition")
    THEN Raise("KeyError")
    ELSE IF definition.t = "list"
    THEN Raise("AttributeError")          \* a list has no .get
    ELSE LET command_type == dict_get(definition, "type", YStr("shell")) IN
         IF command_type.t \in {"list", "dict"}
         THEN Raise("TypeError")          \* unhashable operand of `not in {...}`
         ELSE IF ~(command_type.t = "str" /\ command_type.s \in CommandTypes)
         THEN Raise("ValueError")
         ELSE UserCommand(n, command_type.s, definition.f["definition"].s,
                          help_text(definition).s)

\* _parse_commands: the exceptions of _create_command that skip one command
parse_catches(e) == e \in {"KeyError", "ValueError"}

\* _parse_commands: user_commands = config.get("commands", config)
user_commands_wrapped_only(config) == dict_get(config, "commands", YNull)

user_commands_of(config) == dict_get(config, "commands", config)

\* CommandLoader._parse_commands(config)
parse_commands(config) ==
    IF config.t # "dict"
    THEN [exc |-> "AttributeError", cmds |-> EmptyDict]     \* config.get
    ELSE LET user_commands == user_commands_of(config) IN
         IF user_commands.t # "dict"
         THEN [exc |-> "none", cmds |-> EmptyDict]
         ELSE LET made == [n \in DOMAIN user_commands.f |->
                              create_command(n, user_commands.f[n])]
                  escaping == {n \in DOMAIN made :
                                  made[n].exc # "none" /\ ~parse_catches(made[n].exc)}
              IN IF escaping # {}
                 \* the first such entry in dict order raises out of the loop
                 THEN [exc |-> made[CHOOSE n \in escaping : TRUE].exc, cmds |-> EmptyDict]
                 ELSE [exc |-> "none",
                       cmds |-> [n \in {m \in DOMAIN made : made[m].exc = "none"} |->
                                    made[n].cmd]]

\* What is on disk at a path: k says whether the file exists, can be read and
\* is YAML; v is what yaml.safe_load returns for it.
File(k, v) == [k |-> k, v |-> v]

\* CommandLoader._read_yaml(path)
read_yaml(file) ==
    IF file.k = "missing" THEN YDict(NoItems)
    ELSE IF file.k = "invalid_yaml" THEN YDict(NoItems)
    ELSE IF file.k = "unreadable" THEN YDict(NoItems)
    ELSE IF file.v.t = "null" THEN YDict(NoItems)
    ELSE file.v

\* load_commands: `except Exception` around one path
load_catches(e) == TRUE

\* load_commands: all_commands.update(new_commands)
load_update_first_wins(all, new) == dict_update(new, all)

load_update(all, new) == dict_update(all, new)

\* load_commands: the path handled after one with no content (`continue`)
after_empty_break(i, n) == n + 1

after_empty(i, n) == i + 1

RECURSIVE load_from(_, _, _)
\* load_commands: the loop from path number i on, all being all_commands so far
load_from(paths, i, all) ==
    IF i > Len(paths)
    THEN [exc |-> "none", cmds |-> all]
    ELSE LET yaml_content == read_yaml(paths[i]) IN
         IF ~truthy(yaml_content)
         THEN load_from(paths, after_empty(i, Len(paths)), all)
         ELSE LET new_commands == parse_commands(yaml_content) IN
              IF new_commands.exc = "none"
              THEN load_from(paths, i + 1, load_update(all, new_commands.cmds))
              ELSE IF load_catches(new_commands.exc)
              THEN load_from(paths, i + 1, all)
              ELSE [exc |-> new_commands.exc, cmds |-> EmptyDict]

\* CommandLoader.load_commands()
load_commands(paths) == load_from(paths, 1, EmptyDict)

----------------------------------------------------------------------------
(* Loader inputs and specifications *)

\* the longest list of config paths given to a CommandLoader
MaxPaths == 3

\* values of the `type` field: the three kinds, another string, non-strings
TypeValues ==
    {YStr(k) : k \in CommandTypes \cup {"invalid-value"}} \cup {YInt, YNull, YList("shell")}

Fields == {"definition", "type", "help", "description"}

FieldValues(k) ==
    CASE k = "definition" -> {YStr("echo hi {args}"), YStr("my.plugin.func")}
      [] k = "type" -> TypeValues
      [] k = "help" -> {YStr(""), YStr("Help text")}
      [] k = "description" -> {YStr(""), YStr("Description text")}

\* every mapping-form raw definition over Fields
MappingDefs ==
    UNION { {YDict(g) : g \in {h \in [S -> UNION {FieldValues(k) : k \in S}] :
                                  \A k \in S : h[k] \in FieldValues(k)}} :
            S \in SUBSET Fields }

\* the raw definitions _create_command is called with
CreateDefs ==
    {YStr(""), YStr("ls"), YInt, YNull, YList("definition"), YList("ls")} \cup MappingDefs

PluginDef ==
    YDict("definition" :> YStr("my.plugin.func") @@ "type" :> YStr("plugin")
          @@ "help" :> YStr("Help text"))

\* raw definitions in the sources of a several-path load
LoadDefs == {YStr("ls"), PluginDef, YInt}

\* raw definitions in the source of a one-path load
RichDefs ==
    LoadDefs \cup
    { YDict("help" :> YStr("Help text")),
      YDict("definition" :> YStr("echo bad") @@ "type" :> YStr("invalid-value")),
      YDict("definition" :> YStr("echo bad") @@ "type" :> YList("shell")),
      YNull, YList("ls"), YList("definition") }

\* the name -> raw definition mappings over names and defs
NameMaps(names, defs) == UNION { [S -> defs] : S \in SUBSET names }

\* config files that are the name -> definition mapping itself
BareFiles(names, defs) == {File("yaml", YDict(m)) : m \in NameMaps(names, defs)}

\* config files holding the mapping under the `commands` key
WrappedFiles(names, defs) ==
    {File("yaml", YDict("commands" :> YDict(m))) : m \in NameMaps(names, defs)}

\* a path with no file, an unreadable one, invalid YAML, an empty file, a YAML list
OtherFiles ==
    { File("missing", YNull), File("unreadable", YNull), File("invalid_yaml", YNull),
      File("yaml", YNull), File("yaml", YList("ls")) }

\* the sources of a several-path load
BasicFiles ==
    OtherFiles \cup BareFiles(Names, LoadDefs) \cup WrappedFiles(Names, {YStr("echo hi {args}")})

\* the sources of a one-path load
RichFiles ==
    BareFiles(Names \cup {"commands"}, RichDefs) \cup
    WrappedFiles(Names \cup {"commands"}, RichDefs)

\* a CommandLoader constructed over some config paths, load_commands not yet called
InitLoad ==
    /\ RegistryInit
    /\ CreateIdle
    /\ InvokeIdle
    /\ \/ config_paths \in {<<f>> : f \in RichFiles}
       \/ \E n \in 0..MaxPaths : config_paths \in [1..n -> BasicFiles]
    /\ all_commands = EmptyDict
    /\ lpc = "start"

LoadCommands ==
    /\ lpc = "start"
    /\ LET r == load_commands(config_paths) IN
         /\ all_commands' = r.cmds
         /\ lpc' = IF r.exc = "none" THEN "returned" ELSE "raised"
    /\ UNCHANGED <<config_paths, regVars, createVars, invokeVars>>

\* from_config: `if commands:`
has_commands_always(cmds) == TRUE

has_commands(cmds) == DOMAIN cmds # {}

\* UserCommandRegistry.from_config(config_paths), on a new registry
FromConfig ==
    /\ lpc = "start"
    /\ LET r == load_commands(config_paths) IN
         /\ all_commands' = r.cmds
         /\ IF r.exc # "none"
            THEN lpc' = "raised" /\ UNCHANGED regVars
            ELSE /\ lpc' = "constructed"
                 /\ IF has_commands(r.cmds)
                    THEN add_commands("<config>", r.cmds)
                    ELSE UNCHANGED regVars
    /\ UNCHANGED <<config_paths, createVars, invokeVars>>

NextLoad == LoadCommands \/ FromConfig

SpecLoad == InitLoad /\ [][NextLoad]_vars

\* _create_command about to be called with a name and a raw definition
InitCreate ==
    /\ RegistryInit
    /\ LoaderIdle
    /\ InvokeIdle
    /\ cmd_name \in Names
    /\ cmd_def \in CreateDefs
    /\ cmd = [exc |-> "none", cmd |-> NoCommand]
    /\ cpc = "start"
    /\ ctor_type = ""

CreateCommand ==
    /\ cpc = "start"
    /\ cmd' = create_command(cmd_name, cmd_def)
    /\ cpc' = "done"
    /\ UNCHANGED <<cmd_name, cmd_def, ctor_type, regVars, loadVars, invokeVars>>

\* the command_type values a caller constructs a UserCommand with
ConstructTypes == CommandTypes \cup {"invalid-value", ""}

\* UserCommand(name, command_type, definition, description) called directly
ConstructUserCommand ==
    /\ cpc = "start"
    /\ cmd_def.t = "str"
    /\ \E t \in ConstructTypes :
          /\ ctor_type' = t
          /\ cmd' = UserCommand(cmd_name, t, cmd_def.s, RunDescription(cmd_def.s))
    /\ cpc' = "constructed"
    /\ UNCHANGED <<cmd_name, cmd_def, regVars, loadVars, invokeVars>>

NextCreate == CreateCommand \/ ConstructUserCommand

SpecCreate == InitCreate /\ [][NextCreate]_vars

----------------------------------------------------------------------------
(* Resolver: load_plugin, import_string *)

\* the process the resolver runs in: the importable modules ...
ImportModule(module_path) ==
    IF module_path = <<>> THEN [exc |-> "ValueError", val |-> "None"]    \* Empty module name
    ELSE IF module_path \in {<<"pkg">>, <<".", "pkg">>} THEN [exc |-> "none", val |-> "pkg"]
    ELSE IF module_path \in {<<"broken">>, <<".", "broken">>}
    THEN [exc |-> "RuntimeError", val |-> "None"]                        \* raised by the module's code
    ELSE [exc |-> "ImportError", val |-> "None"]                         \* ModuleNotFoundError

\* ... the attributes of module pkg: a function and a constant ...
GetAttr(module, class_name) ==
    IF class_name = "func" THEN [exc |-> "none", val |-> "callable"]
    ELSE IF class_name = "VALUE" THEN [exc |-> "none", val |-> "value"]
    ELSE [exc |-> "AttributeError", val |-> "None"]

\* ... and importlib.metadata.entry_points(group=group): name and what load() does
EntryPoints(group) ==
    IF group = "ns_aider_commands"
    THEN { [name |-> "test", load |-> [exc |-> "none", val |-> "callable"]],
           [name |-> "func", load |-> [exc |-> "ImportError", val |-> "None"]],
           [name |-> "broken", load |-> [exc |-> "AttributeError", val |-> "None"]] }
    ELSE IF group = "pkg_commands"
    THEN { [name |-> "test", load |-> [exc |-> "none", val |-> "callable"]] }
    ELSE {}

ImportErrorRaised == [exc |-> "ImportError", val |-> "None"]

\* import_string: an exception of __import__ that is not an ImportError is not caught
import_error_wrap_all(e) == "ImportError"

import_error(e) == e

\* import_string(import_name)
import_string(import_name) ==
    IF PositionsOf(import_name, ".") = {}
    THEN ImportErrorRaised                      \* rsplit gives one part: ValueError, re-raised
    ELSE LET k == Maximum(PositionsOf(import_name, "."))
             module_path == SubSeq(import_name, 1, k - 1)
             class_name == Join(SubSeq(import_name, k + 1, Len(import_name)))
             module == ImportModule(module_path)
         IN IF module.exc # "none"
            THEN [exc |-> import_error(module.exc), val |-> "None"]
            ELSE IF GetAttr(module.val, class_name).exc # "none"
            THEN ImportErrorRaised
            ELSE GetAttr(module.val, class_name)

\* load_plugin: group = f'{package}_aider_commands'
entry_point_group_plain(package) == Join(package) \o "_commands"

entry_point_group(package) == Join(package) \o "_aider_commands"

\* load_plugin(plugin_spec)
load_plugin(plugin_spec) ==
    IF PositionsOf(plugin_spec, "#") = {}
    THEN import_string(plugin_spec)
    ELSE LET k == Minimum(PositionsOf(plugin_spec, "#"))
             package == SubSeq(plugin_spec, 1, k - 1)
             entry_point == Join(SubSeq(plugin_spec, k + 1, Len(plugin_spec)))
             eps == EntryPoints(entry_point_group(package))
             matching == {ep \in eps : ep.name = entry_point}
         IN IF eps = {} THEN ImportErrorRaised
            ELSE IF matching = {} THEN ImportErrorRaised
            ELSE LET ep == CHOOSE m \in matching : TRUE IN
                 IF ep.load.exc # "none" THEN ImportErrorRaised   \* re-raised or wrapped
                 ELSE ep.load

----------------------------------------------------------------------------
(* UserCommand.__call__ *)

\* what cmd_run and the plugin function return
RunResult == "cmd_run result"

CalleeResult == "callee result"

FormatError(e) == [exc |-> e, text |-> ""]

RECURSIVE format_from(_, _, _, _)
\* str.format(args=a) from symbol i on, out being the text made so far
format_from(t, i, out, a) ==
    IF i > Len(t) THEN [exc |-> "none", text |-> out]
    ELSE IF t[i] = "{"
    THEN IF i + 1 <= Len(t) /\ t[i + 1] = "{"
         THEN format_from(t, i + 2, out \o "{", a)
         ELSE LET stops == {j \in (i + 1)..Len(t) : t[j] \in {"{", "}"}} IN
              IF stops = {} THEN FormatError("ValueError")          \* expected '}'
              ELSE IF t[Minimum(stops)] = "{" THEN FormatError("ValueError")
              ELSE LET field == Join(SubSeq(t, i + 1, Minimum(stops) - 1)) IN
                   IF field = "args" THEN format_from(t, Minimum(stops) + 1, out \o a, a)
                   ELSE IF field = "" THEN FormatError("IndexError")
                   ELSE FormatError("KeyError")
    ELSE IF t[i] = "}"
    THEN IF i + 1 <= Len(t) /\ t[i + 1] = "}"
         THEN format_from(t, i + 2, out \o "}", a)
         ELSE FormatError("ValueError")                             \* Single '}'
    ELSE format_from(t, i + 1, out \o t[i], a)

\* self.definition.format(args=args)
format_ignoring_args(definition, a) == format_from(definition, 1, "", "")

format(definition, a) == format_from(definition, 1, "", a)

\* the effects and the result of a call
Effect(exc, ret, runs, calls, errors) ==
    [exc |-> exc, ret |-> ret, cmd_run_calls |-> runs, callee_calls |-> calls,
     tool_errors |-> errors]

\* UserCommand._run_shell
run_shell(self, a, cmd_run) ==
    LET shell_cmd == format(self.definition, a) IN
    IF shell_cmd.exc # "none"
    THEN Effect(shell_cmd.exc, "None", <<>>, <<>>, <<>>)
    ELSE IF cmd_run = "raises"
    THEN Effect("RuntimeError", "None", <<shell_cmd.text>>, <<>>, <<>>)
    ELSE Effect("none", RunResult, <<shell_cmd.text>>, <<>>, <<>>)

\* error_handler(io, error_prefix) around a body that had effect e
error_handler_reraise(e, error_prefix) == e

error_handler(e, error_prefix) ==
    IF e.exc = "none" THEN e
    ELSE Effect("none", "None", e.cmd_run_calls, e.callee_calls,
                Append(e.tool_errors, [prefix |-> error_prefix, e |-> e.exc]))

\* calling the object load_plugin returned with the arguments argv
call_resolved(val, argv, callee) ==
    IF val # "callable" THEN Effect("TypeError", "None", <<>>, <<>>, <<>>)    \* not callable
    ELSE IF Len(argv) # callee.arity THEN Effect("TypeError", "None", <<>>, <<>>, <<>>)
    ELSE IF callee.raises THEN Effect("RuntimeError", "None", <<>>, <<argv>>, <<>>)
    ELSE Effect("none", CalleeResult, <<>>, <<argv>>, <<>>)

\* _run_plugin: plugin_func(commands, args)
plugin_argv(self, a) == <<"commands", a>>

\* _run_override: override_func(commands, args)
override_argv(self, a) == <<"commands", a>>

\* UserCommand._run_plugin
run_plugin(self, a, callee) ==
    error_handler(
        IF load_plugin(self.definition).exc # "none"
        THEN Effect(load_plugin(self.definition).exc, "None", <<>>, <<>>, <<>>)
        ELSE call_resolved(load_plugin(self.definition).val, plugin_argv(self, a), callee),
        "Error running plugin command " \o self.name)

\* UserCommand._run_override
run_override(self, a, callee) ==
    error_handler(
        IF load_plugin(self.definition).exc # "none"
        THEN Effect(load_plugin(self.definition).exc, "None", <<>>, <<>>, <<>>)
        ELSE call_resolved(load_plugin(self.definition).val, override_argv(self, a), callee),
        "Error running override command " \o self.name)

\* UserCommand.__call__: self._runner(commands, args)
call_command(self, a, cmd_run, callee) ==
    CASE self.command_type = "shell" -> run_shell(self, a, cmd_run)
      [] self.command_type = "plugin" -> run_plugin(self, a, callee)
      [] self.command_type = "override" -> run_override(self, a, callee)

\* the longest shell template and the longest reference, in symbols
MaxTemplate == 4

MaxReference == 3

TemplateSymbols == {"{", "}", "args", "x", "echo hi "}

ReferenceSymbols == {".", "#", "pkg", "broken", "ns", "func", "VALUE", "test"}

Templates == UNION { [1..n -> TemplateSymbols] : n \in 0..MaxTemplate }

References == UNION { [1..n -> ReferenceSymbols] : n \in 0..MaxReference }

ArgStrings == {"", "there", "{x}"}

\* a UserCommand about to be invoked in some context
InitInvoke ==
    /\ RegistryInit
    /\ LoaderIdle
    /\ CreateIdle
    /\ \E n \in Names, t \in CommandTypes :
          \E d \in (IF t = "shell" THEN Templates ELSE References) :
              self_cmd = [name |-> n, command_type |-> t, definition |-> d]
    /\ call_args \in ArgStrings
    /\ env_cmd_run \in {"returns", "raises"}
    /\ env_callee \in [arity : {2, 3}, raises : BOOLEAN]
    /\ self_cmd.command_type = "shell" => env_callee = [arity |-> 2, raises |-> FALSE]
    /\ self_cmd.command_type # "shell" => env_cmd_run = "returns"
    /\ cmd_run_calls = <<>>
    /\ callee_calls = <<>>
    /\ tool_errors = <<>>
    /\ outcome = [exc |-> "none", ret |-> "None"]
    /\ resolved = [exc |-> "none", val |-> "None"]
    /\ ipc = "start"

\* cmd(commands, args)
Invoke ==
    /\ ipc = "start"
    /\ LET e == call_command(self_cmd, call_args, env_cmd_run, env_callee) IN
         /\ outcome' = [exc |-> e.exc, ret |-> e.ret]
         /\ cmd_run_calls' = e.cmd_run_calls
         /\ callee_calls' = e.callee_calls
         /\ tool_errors' = e.tool_errors
    /\ ipc' = "invoked"
    /\ UNCHANGED <<self_cmd, call_args, env_cmd_run, env_callee, resolved,
                   regVars, loadVars, createVars>>

\* load_plugin(definition) called directly
LoadPlugin ==
    /\ ipc = "start"
    /\ self_cmd.command_type # "shell"
    /\ resolved' = load_plugin(self_cmd.definition)
    /\ ipc' = "resolved"
    /\ UNCHANGED <<self_cmd, call_args, env_cmd_run, env_callee, cmd_run_calls,
                   callee_calls, tool_errors, outcome, regVars, loadVars, createVars>>

NextInvoke == Invoke \/ LoadPlugin

SpecInvoke == InitInvoke /\ [][NextInvoke]_vars

----------------------------------------------------------------------------
(* Registry properties *)

\* C1: after add_commands(src, m) every name of m is a key of commands and
\* sources[src] is exactly the set of m's names (a prior set for src is replaced).
C1_AddRecordsExactly ==
    last.op = "add" =>
        /\ \A n \in DOMAIN last.mapping : n \in DOMAIN commands
        /\ last.arg \in DOMAIN sources
        /\ sources[last.arg] = DOMAIN last.mapping

\* an add_commands for a source that had earlier supplied another name: the old set is gone
C1_Witness ==
    /\ last.op = "add"
    /\ DOMAIN last.mapping # {}
    /\ sources[last.arg] = DOMAIN last.mapping
    /\ \E n \in DOMAIN commands :
          /\ n \notin sources[last.arg]
          /\ supplied[n].src = last.arg

\* C2: name collisions are last-write-wins: commands[name] is the Command of the
\* most recent add_commands whose mapping held name, whichever source supplied it.
C2_LastWriteWins ==
    /\ DOMAIN commands \subseteq DOMAIN supplied
    /\ \A n \in DOMAIN commands : commands[n] = supplied[n].cmd
    /\ last.op = "add" => \A n \in DOMAIN last.mapping : commands[n] = last.mapping[n]

\* x was supplied by A and then, with another Command, by B
C2_Witness ==
    /\ "A" \in DOMAIN sources
    /\ "x" \in sources["A"]
    /\ "x" \in DOMAIN commands
    /\ supplied["x"].src = "B"
    /\ last = [op |-> "add", arg |-> "B",
               mapping |-> [n \in {"x"} |-> UserCommandRec("x", "shell", "c2", "")],
               ret |-> "None", line |-> 224]
    /\ commands["x"].definition = "c2"

\* C3: drop_commands(s) for a known source s removes from commands exactly the
\* names in sources[s], removes the entry sources[s], leaves every other command
\* and source entry unchanged and returns True.
C3_DropSource ==
    [][ (last'.op = "drop" /\ last'.arg \in DOMAIN sources) =>
          /\ DOMAIN commands' = (DOMAIN commands) \ sources[last'.arg]
          /\ \A n \in DOMAIN commands' : commands'[n] = commands[n]
          /\ DOMAIN sources' = (DOMAIN sources) \ {last'.arg}
          /\ \A s \in DOMAIN sources' : sources'[s] = sources[s]
          /\ last'.ret = "True" ]_vars

\* a source was dropped while another source and another command stayed
C3_Witness ==
    /\ last.op = "drop"
    /\ last.line = 231
    /\ last.arg \notin DOMAIN sources
    /\ DOMAIN sources # {}
    /\ DOMAIN commands # {}

\* C4: drop_commands(n) for a known command name n that is no source identifier
\* removes exactly the command n, removes n from every source set holding it,
\* deletes the source entries that become empty, leaves the rest unchanged and
\* returns True.
C4_DropName ==
    [][ (/\ last'.op = "drop"
         /\ last'.arg \notin DOMAIN sources
         /\ last'.arg \in DOMAIN commands) =>
          /\ DOMAIN commands' = (DOMAIN commands) \ {last'.arg}
          /\ \A n \in DOMAIN commands' : commands'[n] = commands[n]
          /\ \A s \in DOMAIN sources :
                IF last'.arg \in sources[s]
                THEN IF sources[s] = {last'.arg}
                     THEN s \notin DOMAIN sources'
                     ELSE s \in DOMAIN sources' /\ sources'[s] = sources[s] \ {last'.arg}
                ELSE s \in DOMAIN sources' /\ sources'[s] = sources[s]
          /\ DOMAIN sources' \subseteq DOMAIN sources
          /\ last'.ret = "True" ]_vars

\* a command was dropped by name, a source entry survived without it
C4_Witness ==
    /\ last.op = "drop"
    /\ last.line = 239
    /\ last.arg \notin DOMAIN commands
    /\ \E s \in DOMAIN sources : sources[s] # {} /\ supplied[last.arg].src = s

\* C5: drop_commands(t) for a t that is neither a key of sources nor a key of
\* commands returns False and leaves commands and sources unchanged.
C5_DropUnknown ==
    [][ (/\ last'.op = "drop"
         /\ last'.arg \notin DOMAIN sources
         /\ last'.arg \notin DOMAIN commands) =>
          /\ last'.ret = "False"
          /\ commands' = commands
          /\ sources' = sources ]_vars

\* an unknown target was dropped from a registry that holds commands
C5_Witness ==
    /\ last.op = "drop"
    /\ last.ret = "False"
    /\ last.arg \notin DOMAIN sources
    /\ last.arg \notin DOMAIN commands
    /\ DOMAIN commands # {}
    /\ DOMAIN sources # {}

----------------------------------------------------------------------------
(* Loader properties *)

\* the commands one source adds to all_commands: what _parse_commands returns
\* for its content, nothing when it has no content or its parsing raised
source_commands(file) ==
    LET yaml_content == read_yaml(file) IN
    IF ~truthy(yaml_content) THEN EmptyDict
    ELSE IF parse_commands(yaml_content).exc # "none" THEN EmptyDict
    ELSE parse_commands(yaml_content).cmds

\* the paths whose source validly defines n
Definers(n) ==
    {i \in 1..Len(config_paths) : n \in DOMAIN source_commands(config_paths[i])}

AllLoadedNames ==
    UNION {DOMAIN source_commands(config_paths[i]) : i \in 1..Len(config_paths)}

\* C6: load_commands handles its sources in order; a name validly defined by
\* several sources (each source's parse yields it) holds the definition of the
\* last of them, and a name defined by one source only is in the result.
C6_LaterSourceWins ==
    lpc = "returned" =>
        /\ DOMAIN all_commands = AllLoadedNames
        /\ \A n \in AllLoadedNames :
              all_commands[n] = source_commands(config_paths[Maximum(Definers(n))])[n]

\* two sources define x differently, only the first defines y
C6_Witness ==
    /\ lpc = "returned"
    /\ Len(config_paths) = 2
    /\ Definers("x") = {1, 2}
    /\ Definers("y") = {1}
    /\ source_commands(config_paths[1])["x"] # source_commands(config_paths[2])["x"]
    /\ all_commands["x"] = source_commands(config_paths[2])["x"]
    /\ "y" \in DOMAIN all_commands

\* a source that does not exist, is empty or is not valid YAML
Failing(file) ==
    \/ file.k \in {"missing", "invalid_yaml"}
    \/ file.k = "yaml" /\ file.v.t = "null"

\* the list without its i-th element
WithoutPath(paths, i) ==
    [j \in 1..(Len(paths) - 1) |-> IF j < i THEN paths[j] ELSE paths[j + 1]]

\* C7: a source that does not exist, is empty or fails to parse adds no command
\* (the result is the one of the list without it), load_commands does not
\* raise, and every command the other sources yield, before and after it, is
\* in the result.
C7_SourceIsolation ==
    /\ lpc # "raised"
    /\ lpc = "returned" =>
          \A i \in 1..Len(config_paths) :
              Failing(config_paths[i]) =>
                 /\ all_commands = load_commands(WithoutPath(config_paths, i)).cmds
                 /\ \A j \in (1..Len(config_paths)) \ {i} :
                       \A n \in DOMAIN source_commands(config_paths[j]) :
                           n \in DOMAIN all_commands

\* invalid YAML between a source defining x and a source defining y
C7_Witness ==
    /\ lpc = "returned"
    /\ Len(config_paths) = 3
    /\ config_paths[2].k = "invalid_yaml"
    /\ DOMAIN source_commands(config_paths[1]) = {"x"}
    /\ DOMAIN source_commands(config_paths[3]) = {"y"}
    /\ DOMAIN all_commands = {"x", "y"}

\* a mapping definition without `definition` or with a `type` outside the kinds
InvalidMapping(d) ==
    /\ d.t = "dict"
    /\ \/ "definition" \notin DOMAIN d.f
       \/ /\ "type" \in DOMAIN d.f
          /\ ~(d.f["type"].t = "str" /\ d.f["type"].s \in CommandTypes)

\* a bare string, or a mapping with `definition` and an absent or known `type`
ValidDefinition(d) ==
    \/ d.t = "str"
    \/ /\ d.t = "dict"
       /\ "definition" \in DOMAIN d.f
       /\ "type" \in DOMAIN d.f => (d.f["type"].t = "str" /\ d.f["type"].s \in CommandTypes)

\* the name -> raw definition mapping of a source, as _parse_commands takes it
SourceEntries(file) ==
    LET user_commands == dict_get(file.v, "commands", file.v) IN
    IF file.k = "yaml" /\ file.v.t = "dict" /\ user_commands.t = "dict"
    THEN user_commands.f
    ELSE NoItems

\* C8: when the one source loaded holds a command whose mapping lacks
\* `definition` or whose `type` is not shell/plugin/override, that command is
\* absent from the result and every valid sibling of that source is loaded.
C8_InvalidCommandSkipped ==
    (lpc = "returned" /\ Len(config_paths) = 1) =>
        \A n \in DOMAIN SourceEntries(config_paths[1]) :
            InvalidMapping(SourceEntries(config_paths[1])[n]) =>
               /\ n \notin DOMAIN all_commands
               /\ \A m \in DOMAIN SourceEntries(config_paths[1]) :
                     ValidDefinition(SourceEntries(config_paths[1])[m]) =>
                         m \in DOMAIN all_commands

\* C9: for a bare-string raw definition d under name n the loader makes a
\* Command with name n, kind shell, definition d and description "Run: " + d.
C9_BareString ==
    (cpc = "done" /\ cmd_def.t = "str") =>
        /\ cmd.exc = "none"
        /\ cmd.cmd.name = cmd_name
        /\ cmd.cmd.command_type = "shell"
        /\ cmd.cmd.definition = cmd_def.s
        /\ cmd.cmd.description = "Run: " \o cmd_def.s

\* the bare string "ls" was turned into a Command
C9_Witness ==
    /\ cpc = "done"
    /\ cmd_def = YStr("ls")
    /\ cmd.exc = "none"
    /\ cmd.cmd.description = "Run: ls"

\* C10 as claimed: with `help` and `description` both present, whatever their
\* string values (an empty `help` too), the description is the `help` value;
\* with neither present it is "Run: <definition>".
C10_HelpAlwaysWins ==
    (cpc = "done" /\ cmd_def.t = "dict" /\ cmd.exc = "none") =>
        /\ ("help" \in DOMAIN cmd_def.f /\ "description" \in DOMAIN cmd_def.f) =>
              cmd.cmd.description = cmd_def.f["help"].s
        /\ ("help" \notin DOMAIN cmd_def.f /\ "description" \notin DOMAIN cmd_def.f) =>
              cmd.cmd.description = "Run: " \o cmd_def.f["definition"].s

\* C10 amended: with `help` and `description` both present and `help` not the
\* empty string the description is the `help` value; with neither present it
\* is "Run: <definition>".
C10_NonEmptyHelpWins ==
    (cpc = "done" /\ cmd_def.t = "dict" /\ cmd.exc = "none") =>
        /\ (/\ "help" \in DOMAIN cmd_def.f
            /\ "description" \in DOMAIN cmd_def.f
            /\ cmd_def.f["help"].s # "") =>
              cmd.cmd.description = cmd_def.f["help"].s
        /\ ("help" \notin DOMAIN cmd_def.f /\ "description" \notin DOMAIN cmd_def.f) =>
              cmd.cmd.description = "Run: " \o cmd_def.f["definition"].s

\* a Command made from a mapping with a help text and another description
C10_Witness ==
    /\ cpc = "done"
    /\ cmd_def.t = "dict"
    /\ cmd.exc = "none"
    /\ "help" \in DOMAIN cmd_def.f
    /\ "description" \in DOMAIN cmd_def.f
    /\ cmd_def.f["help"].s = "Help text"
    /\ cmd_def.f["description"].s = "Description text"
    /\ cmd.cmd.description = "Help text"

\* the config file holding mapping m under the `commands` key
Wrapped(m) == File("yaml", YDict("commands" :> YDict(m)))

\* C11 as claimed: loading a config that is the name -> definition mapping M
\* itself gives the same Commands as loading {commands: M}, for every M, one
\* with a command named `commands` included.
C11_BareEqualsWrapped ==
    (/\ lpc = "returned"
     /\ Len(config_paths) = 1
     /\ config_paths[1].k = "yaml"
     /\ config_paths[1].v.t = "dict") =>
        all_commands = load_commands(<<Wrapped(config_paths[1].v.f)>>).cmds

\* C11 amended: the same, for every M that has no entry named `commands`.
C11_BareEqualsWrappedUnlessNamedCommands ==
    (/\ lpc = "returned"
     /\ Len(config_paths) = 1
     /\ config_paths[1].k = "yaml"
     /\ config_paths[1].v.t = "dict"
     /\ "commands" \notin DOMAIN config_paths[1].v.f) =>
        all_commands = load_commands(<<Wrapped(config_paths[1].v.f)>>).cmds

\* a bare mapping of two valid commands was loaded, as its wrapped form loads
C11_Witness ==
    /\ lpc = "returned"
    /\ Len(config_paths) = 1
    /\ config_paths[1] = File("yaml", YDict("x" :> YStr("ls") @@ "y" :> PluginDef))
    /\ DOMAIN all_commands = {"x", "y"}
    /\ all_commands = load_commands(<<Wrapped(config_paths[1].v.f)>>).cmds

\* C12: constructing a Command succeeds only for a kind among shell, plugin,
\* override and fails with an error for any other kind, so every Command that
\* exists has a kind in that set.
C12_KindClosed ==
    /\ cpc = "constructed" =>
          /\ cmd.exc = "none" <=> ctor_type \in {"shell", "plugin", "override"}
          /\ cmd.exc = "none" => cmd.cmd.command_type = ctor_type
          /\ cmd.exc # "none" => cmd.exc = "ValueError" /\ cmd.cmd = NoCommand
    /\ (cpc \in {"done", "constructed"} /\ cmd.exc = "none") =>
          cmd.cmd.command_type \in {"shell", "plugin", "override"}

\* a construction with another kind failed
C12_Witness ==
    /\ cpc = "constructed"
    /\ ctor_type = "invalid-value"
    /\ cmd.exc = "ValueError"

----------------------------------------------------------------------------
(* Invocation properties *)

RECURSIVE Replaced(_, _)
\* the template with every {args} placeholder replaced by a, nothing else touched
Replaced(t, a) ==
    IF t = <<>> THEN ""
    ELSE IF Len(t) >= 3 /\ SubSeq(t, 1, 3) = <<"{", "args", "}">>
    THEN a \o Replaced(SubSeq(t, 4, Len(t)), a)
    ELSE Head(t) \o Replaced(Tail(t), a)

\* every brace of the template belongs to an {args} placeholder
OnlyArgsBraces(t) ==
    /\ \A i \in PositionsOf(t, "{") : i + 2 <= Len(t) /\ t[i + 1] = "args" /\ t[i + 2] = "}"
    /\ \A i \in PositionsOf(t, "}") : i > 2 /\ t[i - 1] = "args" /\ t[i - 2] = "{"

ShellInvoked == ipc = "invoked" /\ self_cmd.command_type = "shell"

RanReplaced ==
    /\ cmd_run_calls = <<Replaced(self_cmd.definition, call_args)>>
    /\ env_cmd_run = "returns" => outcome = [exc |-> "none", ret |-> RunResult]

C14_ShellNeverRaises ==
    ShellInvoked =>
        /\ outcome.exc = "none"
        /\ (format(self_cmd.definition, call_args).exc # "none" \/ env_cmd_run = "raises")
              => Len(tool_errors) = 1

PluginInvoked == ipc = "invoked" /\ self_cmd.command_type = "plugin"

\* the definition resolves to a callable that takes (context, args) and returns
PluginSucceeds ==
    /\ load_plugin(self_cmd.definition) = [exc |-> "none", val |-> "callable"]
    /\ env_callee = [arity |-> 2, raises |-> FALSE]

\* C15: invoking a plugin command calls the resolved callable as
\* callable(context, args) and returns its result; when resolution or the call
\* fails, exactly one error naming the command is reported, nothing is raised
\* and None is returned.
C15_PluginCalledOrReported ==
    PluginInvoked =>
        /\ outcome.exc = "none"
        /\ cmd_run_calls = <<>>
        /\ IF PluginSucceeds
           THEN /\ callee_calls = << <<"commands", call_args>> >>
                /\ outcome.ret = CalleeResult
                /\ tool_errors = <<>>
           ELSE /\ Len(tool_errors) = 1
                /\ tool_errors[1].prefix = "Error running plugin command " \o self_cmd.name
                /\ outcome.ret = "None"
                /\ callee_calls \in {<<>>, << <<"commands", call_args>> >>}

C15_Witness ==
    /\ PluginInvoked
    /\ load_plugin(self_cmd.definition).exc = "none"
    /\ env_callee = [arity |-> 2, raises |-> TRUE]
    /\ callee_calls = << <<"commands", call_args>> >>
    /\ Len(tool_errors) = 1
    /\ outcome = [exc |-> "none", ret |-> "None"]

OverrideInvoked == ipc = "invoked" /\ self_cmd.command_type = "override"

\* C16: invoking an override command calls the resolved callable with three
\* arguments (context, original_action, args).
C16_OverrideThreeArguments ==
    OverrideInvoked /\ load_plugin(self_cmd.definition) = [exc |-> "none", val |-> "callable"]
                    /\ env_callee = [arity |-> 3, raises |-> FALSE]
        => /\ Len(callee_calls) = 1
           /\ Len(callee_calls[1]) = 3
           /\ callee_calls[1][1] = "commands"
           /\ callee_calls[1][3] = call_args

\* C17: for every reference the resolver returns a callable or fails with
\* ImportError; no other exception kind escapes.
C17_ResolverImportErrorOnly ==
    ipc = "resolved" =>
        \/ resolved = [exc |-> "none", val |-> "callable"]
        \/ resolved.exc = "ImportError"

----------------------------------------------------------------------------
(* Listing properties *)

\* the positions of the header lines and of the command lines of the listing
Headers == {k \in 1..Len(listed) : listed[k].head # ""}

Entries == {k \in 1..Len(listed) : listed[k].head = ""}

\* the group a command line stands under: the nearest header above it
GroupOf(k) == listed[Maximum({h \in Headers : h < k})].head

\* C18: list_commands emits every command of the registry exactly once, under
\* the group of a source whose set contains its name, or under the unknown
\* bucket when no source set contains it; groups come in ascending order of
\* source identifier and the commands of a group in ascending order of name.
C18_ListGroupedSorted ==
    last.op = "list" =>
        /\ \A n \in DOMAIN commands : Cardinality({k \in Entries : listed[k].name = n}) = 1
        /\ \A k \in Entries :
              /\ listed[k].name \in DOMAIN commands
              /\ \E h \in Headers : h < k
              /\ \/ GroupOf(k) \in DOMAIN sources /\ listed[k].name \in sources[GroupOf(k)]
                 \/ /\ GroupOf(k) = "<unknown>"
                    /\ \A s \in DOMAIN sources : listed[k].name \notin sources[s]
        /\ \A h \in Headers : h < Len(listed) /\ (h + 1) \in Entries
        /\ \A g, h \in Headers : g < h => Rank(listed[g].head) < Rank(listed[h].head)
        /\ \A j, k \in Entries :
              j < k /\ GroupOf(j) = GroupOf(k) => Rank(listed[j].name) < Rank(listed[k].name)

C18_Witness ==
    /\ last.op = "list"
    /\ DOMAIN commands = {"x", "y"}
    /\ Cardinality(Headers) = 2
    /\ \E k \in Entries : GroupOf(k) = "<unknown>"
    /\ \E k \in Entries : GroupOf(k) = "x" /\ listed[k].desc = "No description"

\* C19: from_config returns a registry whose commands are what load_commands
\* returns for the paths; when that is non-empty the only source entry is
\* "<config>" and its set is all loaded names; when it is empty the registry
\* has no source entries and no commands.
C19_FromConfig ==
    lpc = "constructed" =>
        /\ commands = load_commands(config_paths).cmds
        /\ IF DOMAIN load_commands(config_paths).cmds # {}
           THEN /\ DOMAIN sources = {"<config>"}
                /\ sources["<config>"] = DOMAIN load_commands(config_paths).cmds
           ELSE /\ DOMAIN sources = {}
                /\ DOMAIN commands = {}

C19_Witness ==
    /\ lpc = "constructed"
    /\ Len(config_paths) >= 2
    /\ DOMAIN commands = {"x", "y"}
    /\ sources["<config>"] = {"x", "y"}

\* C20: in every reachable registry state each command name is in the set of
\* at most one source.
C20_AtMostOneSource ==
    \A s, t \in DOMAIN sources : s # t => sources[s] \cap sources[t] = {}

----------------------------------------------------------------------------
(* Implicit properties *)

\* a raw definition that is neither a string nor a mapping, or a mapping whose
\* `type` is not a string
MalformedDefinition(d) ==
    \/ d.t \notin {"str", "dict"}
    \/ d.t = "dict" /\ "type" \in DOMAIN d.f /\ d.f["type"].t # "str"

\* C21: an error local to one command never aborts its siblings: when an entry
\* of the one source loaded has a raw definition that is a number, a list or
\* null, or a `type` that is not a string, load_commands still returns every
\* valid sibling of that source.
C21_MalformedKeepsSiblings ==
    (lpc = "returned" /\ Len(config_paths) = 1) =>
        ((\E n \in DOMAIN SourceEntries(config_paths[1]) :
              MalformedDefinition(SourceEntries(config_paths[1])[n]))
         => \A m \in DOMAIN SourceEntries(config_paths[1]) :
               ValidDefinition(SourceEntries(config_paths[1])[m]) => m \in DOMAIN all_commands)

\* C22: when the target of drop_commands is both a known source identifier and
\* a known command name, the source interpretation is taken: the names in
\* sources[target] and the source entry are removed, every other source entry
\* is kept as it is, and the command named target is removed only if target is
\* in sources[target].
C22_SourceInterpretationFirst ==
    [][ (/\ last'.op = "drop"
         /\ last'.arg \in DOMAIN sources
         /\ last'.arg \in DOMAIN commands) =>
          /\ DOMAIN commands' = (DOMAIN commands) \ sources[last'.arg]
          /\ \A n \in DOMAIN commands' : commands'[n] = commands[n]
          /\ (last'.arg \in DOMAIN commands') = (last'.arg \notin sources[last'.arg])
          /\ DOMAIN sources' = (DOMAIN sources) \ {last'.arg}
          /\ \A s \in DOMAIN sources' : sources'[s] = sources[s]
          /\ last'.ret = "True" ]_vars

\* drop_commands("x") took the source branch and the command x, which the
\* source x did not hold, is still there
C22_Witness ==
    /\ last.op = "drop"
    /\ last.arg = "x"
    /\ last.line = 231
    /\ "x" \notin DOMAIN sources
    /\ "x" \in DOMAIN commands

\* an entry-point reference that load_plugin was called with
EntryPointResolved ==
    ipc = "resolved" /\ PositionsOf(self_cmd.definition, "#") # {}

\* the reference split on its first `#`
Namespace == SubSeq(self_cmd.definition, 1, Minimum(PositionsOf(self_cmd.definition, "#")) - 1)

Entry ==
    Join(SubSeq(self_cmd.definition, Minimum(PositionsOf(self_cmd.definition, "#")) + 1,
                Len(self_cmd.definition)))

\* what loading the extension named entry of the group gives
LoadedFrom(group, entry) ==
    IF \E ep \in EntryPoints(group) : ep.name = entry /\ ep.load.exc = "none"
    THEN (CHOOSE ep \in EntryPoints(group) : ep.name = entry).load
    ELSE ImportErrorRaised

\* C23 (as stated): an entry-point reference namespace#entry is looked up under
\* the group key namespace + "_commands", and the extension of that group
\* named entry is loaded.
C23_GroupKeyCommands ==
    EntryPointResolved => resolved = LoadedFrom(Join(Namespace) \o "_commands", Entry)

\* C23 (amended): the group key is namespace + "_aider_commands".
C23_GroupKeyAiderCommands ==
    EntryPointResolved => resolved = LoadedFrom(Join(Namespace) \o "_aider_commands", Entry)

C23_Witness ==
    /\ EntryPointResolved
    /\ self_cmd.definition = <<"ns", "#", "test">>
    /\ resolved = [exc |-> "none", val |-> "callable"]

\* C24: in every reachable registry state every name contained in any
\* sources[s] is a key of commands.
C24_SourcesNamesAreCommands ==
    \A s \in DOMAIN sources : sources[s] \subseteq DOMAIN commands

\* C25: in every reachable registry state every key of commands is contained
\* in the set of at least one source.
C25_CommandsHaveSource ==
    \A n \in DOMAIN commands : \E s \in DOMAIN sources : n \in sources[s]

\* C26: drop_commands(s) for a source s never removes a command whose current
\* definition was supplied by a later add_commands from a different source.
C26_DropKeepsLaterDefinition ==
    [][ (last'.op = "drop" /\ last'.arg \in DOMAIN sources) =>
          \A n \in DOMAIN commands :
              supplied[n].src # last'.arg =>
                  n \in DOMAIN commands' /\ commands'[n] = commands[n] ]_vars

\* C27: list_commands shows a command under the source whose add_commands call
\* most recently supplied its current definition (here: whenever that source
\* still holds the name).
C27_ListedUnderLatestSource ==
    last.op = "list" =>
        \A k \in Entries :
            (/\ supplied[listed[k].name].src \in DOMAIN sources
             /\ listed[k].name \in sources[supplied[listed[k].name].src])
            => GroupOf(k) = supplied[listed[k].name].src

====
